---- MODULE Spec2Model ----
(***************************************************************************)
(* Model of the sequential tool-calling orchestration of                   *)
(* backend/ai_generator.py (AIGenerator.generate_response and the two      *)
(* helpers it delegates to) and of the tool registry of                    *)
(* backend/search_tools.py (ToolManager, CourseSearchTool,                 *)
(* CourseOutlineTool).                                                     *)
(*                                                                         *)
(* The LLM boundary and the vector store are external collaborators: the   *)
(* model draws their answers nondeterministically.  The LLM can only emit  *)
(* tool_use blocks when the request offered tools.  Every blocking call    *)
(* (an LLM call, one tool execution) is one action, together with the code *)
(* that runs up to the next blocking call.  The variables marked "history" *)
(* record what the calls were; the code does not read them.                *)
(***************************************************************************)
EXTENDS Integers, Sequences, FiniteSets, TLC

\* ------------------------------------------------------------- bounds ----
MaxRounds == 2        \* largest max_rounds a caller passes
MaxBlocks == 2        \* most tool_use blocks in one LLM response
MaxInvocations == 3   \* most tool_use blocks the LLM emits in one query
MaxQueries == 2       \* generate_response calls on one ToolManager
MaxRegs == 2          \* register_tool calls on one ToolManager
MaxSearches == 2      \* execute_tool calls one query makes when threads interleave

\* --------------------------------------------------------- vocabulary ----
None == "None"

SearchName == "search_course_content"

OutlineName == "get_course_outline"

\* a name the LLM may ask for that no tool of the application carries
OtherName == "other_tool"

ToolNames == {SearchName, OutlineName, OtherName}

\* Tool instances: two CourseSearchTool objects, a third source-tracking search
\* tool that is defined under another name, one CourseOutlineTool and a tool
\* whose definition has no name.
SearchTools == {"search1", "search2", "extra1"}

OutlineTools == {"outline1"}

UnnamedTools == {"unnamed1"}

ToolObjs == SearchTools \cup OutlineTools \cup UnnamedTools

\* tool.get_tool_definition().get("name")
ToolDefName(t) ==
  IF t = "extra1" THEN OtherName
  ELSE IF t \in SearchTools THEN SearchName
  ELSE IF t \in OutlineTools THEN OutlineName
  ELSE ""

VARIABLES
  mgr_tools,        \* ToolManager.tools, an insertion-ordered dict: sequence of [name, tool]
  last_sources,     \* CourseSearchTool.last_sources, per search tool instance
  src_query,        \* history: number of the query whose search wrote last_sources (0: none)
  last_op,          \* history: the last ToolManager call made by the caller and how it ended
  regs,             \* history: number of register_tool calls made
  callers,          \* the threads that share the ToolManager: position and what each read
  pc,               \* position inside generate_response
  path,             \* which helper is running: "none", "seq_init", "seq_loop", "single"
  qn,               \* number of generate_response calls started
  max_rounds,       \* argument max_rounds
  conversation_history, \* argument conversation_history is a non-empty string
  tools,            \* argument tools is a non-empty list
  tool_manager,     \* argument tool_manager is supplied
  messages,         \* the local list messages
  remaining_rounds, \* iterations the for loop still has to run
  response,         \* the LLM response whose content is being iterated
  tool_results,     \* the local list tool_results of the running batch
  calls,            \* history: parameters of every client.messages.create call of this query
  replies,          \* history: the response to each of these calls
  dispatched,       \* history: every tool_manager.execute_tool call of this query
  result,           \* value returned by generate_response
  fault             \* exception that left generate_response, or None

vars == <<mgr_tools, last_sources, src_query, last_op, regs, callers, pc, path, qn, max_rounds,
          conversation_history, tools, tool_manager, messages, remaining_rounds, response, tool_results,
          calls, replies, dispatched, result, fault>>

regvars == <<mgr_tools, last_sources, src_query, last_op, regs, callers>>

qvars == <<pc, path, qn, max_rounds, conversation_history, tools, tool_manager, messages, remaining_rounds,
           response, tool_results, calls, replies, dispatched, result, fault>>

\* ------------------------------------------------------ content blocks ----
TextBlock(n) == [type |-> "text", id |-> 0, name |-> "", text |-> n, content |-> <<>>]

ToolUseBlock(i, nm) == [type |-> "tool_use", id |-> i, name |-> nm, text |-> 0, content |-> <<>>]

\* variant: the result block loses the id of the invocation it answers
ToolResultBlock_NoId(b, c) ==
  [type |-> "tool_result", id |-> 0, name |-> "", text |-> 0, content |-> c]

\* {"type": "tool_result", "tool_use_id": content_block.id, "content": tool_result}
ToolResultBlock(b, c) ==
  [type |-> "tool_result", id |-> b.id, name |-> "", text |-> 0, content |-> c]

\* {"role": "user", "content": query}
QueryMessage == [role |-> "user", content |-> <<[type |-> "query", id |-> 0, name |-> "", text |-> 0, content |-> <<>>]>>]

\* variant: the response is appended under the role of the user
AssistantMessage_AsUser(resp) == [role |-> "user", content |-> resp.content]

AssistantMessage(resp) == [role |-> "assistant", content |-> resp.content]

ToolResultsMessage(rs) == [role |-> "user", content |-> rs]

IsToolUse(b) == b.type = "tool_use"

\* the blocks the loop "for content_block in response.content" dispatches
ToolUseBlocks(content) == SelectSeq(content, IsToolUse)

RECURSIVE CountToolUse(_)
CountToolUse(msgs) ==
  IF msgs = <<>> THEN 0
  ELSE Len(ToolUseBlocks(Head(msgs).content)) + CountToolUse(Tail(msgs))

NoResponse == [stop_reason |-> None, content |-> <<>>]

\* ------------------------------------------------------- vector store ----
\* meta.get('lesson_number') is None
NoLesson == -1

\* metadata of the passages the store can return: [course_title, lesson_number]
Metas == {[course_title |-> "A", lesson_number |-> NoLesson],
          [course_title |-> "A", lesson_number |-> 1],
          [course_title |-> "B", lesson_number |-> 0]}

\* store.get_lesson_link(course_title, lesson_num): the corpus has a link for
\* lesson 1 of course A only; <<>> stands for None
LessonLink(course, n) == IF course = "A" /\ n = 1 THEN <<"link", course, n>> ELSE <<>>

\* what store.search does: raise, or SearchResults with error / empty / documents
\* (kinds K, and the results.metadata lists H when documents are found)
StoreAnswers(K, H) ==
  {[kind |-> k, metadata |-> <<>>] : k \in K}
    \cup {[kind |-> "docs", metadata |-> h] : h \in H}

\* results.metadata of a search that finds two passages
TwoPassages == <<[course_title |-> "A", lesson_number |-> 1],
                 [course_title |-> "B", lesson_number |-> 0]>>

\* the store's answers to a search made from the round loop: it raises, finds
\* nothing, or finds two passages
QueryAnswers == StoreAnswers({"raise", "empty"}, {TwoPassages})

\* the store's answers to a search made by a direct execute_tool call: any
\* failure, any single passage, or two passages
DirectAnswers ==
  StoreAnswers({"raise", "link_raise", "error", "empty"},
               {<<m>> : m \in Metas} \cup {TwoPassages})

\* what the store does for the outline tool: _resolve_course_name raises or
\* returns None, course_catalog.get raises, returns nothing, or returns metadata
OutlineAnswers == {"raise", "unresolved", "catalog_raise", "no_metadata", "metadata"}

\* the store's answers to an outline call made from the round loop
QueryOutlineAnswers == {"raise", "unresolved", "metadata"}

\* ----------------------------------------------------- CourseSearchTool ----
\* variant: the lesson number is tested by its truth value, as in "if lesson_num:"
SourceDict_Truthy(meta) ==
  [text |-> IF meta.lesson_number # NoLesson /\ meta.lesson_number # 0
            THEN <<meta.course_title, " - Lesson ", meta.lesson_number>>
            ELSE <<meta.course_title>>,
   link |-> IF meta.lesson_number # NoLesson /\ meta.lesson_number # 0
            THEN LessonLink(meta.course_title, meta.lesson_number)
            ELSE <<>>]

\* source_text and source_dict of one passage
SourceDict(meta) ==
  [text |-> IF meta.lesson_number # NoLesson
            THEN <<meta.course_title, " - Lesson ", meta.lesson_number>>
            ELSE <<meta.course_title>>,
   link |-> IF meta.lesson_number # NoLesson
            THEN LessonLink(meta.course_title, meta.lesson_number)
            ELSE <<>>]

\* the list sources built by _format_results
FormatSources(metadata) == [i \in 1..Len(metadata) |-> SourceDict(metadata[i])]

\* outcome of one tool.execute: raised, or the returned string, and the value
\* written to self.last_sources when writes is TRUE
Outcome(r, c, w, s) == [raised |-> r, content |-> c, writes |-> w, sources |-> s]

\* the keyword arguments of CourseSearchTool.execute besides query
Args(c, n) == [course_name |-> c, lesson_number |-> n]

\* only the query is passed
NoArgs == Args(None, NoLesson)

\* the argument values a direct execute_tool call passes
ArgValues == {Args(c, n) : c \in {None, "X"}, n \in {NoLesson, 0, 1}}

\* f"{lesson_number}"
Str(n) == IF n = 0 THEN "0" ELSE IF n = 1 THEN "1" ELSE "?"

\* "if course_name:", "if lesson_number:": the truth value Python gives them
TruthyName(c) == c # None /\ c # ""

TruthyNumber(n) == n # NoLesson /\ n # 0

\* f"No relevant content found{filter_info}.", as the sequence of its pieces
NoContentMessage(c, n) ==
  <<"No relevant content found">>
    \o (IF TruthyName(c) THEN <<" in course '", c, "'">> ELSE <<>>)
    \o (IF TruthyNumber(n) THEN <<" in lesson ", Str(n)>> ELSE <<>>)
    \o <<".">>

\* variant: a search that finds nothing empties self.last_sources
CourseSearchExecute_ClearsOnEmpty(ans, args) ==
  IF ans.kind \in {"raise", "link_raise"} THEN Outcome(TRUE, <<>>, FALSE, <<>>)
  ELSE IF ans.kind = "error" THEN Outcome(FALSE, <<"store_error">>, FALSE, <<>>)
  ELSE IF ans.kind = "empty"
       THEN Outcome(FALSE, NoContentMessage(args.course_name, args.lesson_number), TRUE, <<>>)
  ELSE Outcome(FALSE, <<"results">>, TRUE, FormatSources(ans.metadata))

\* execute(query, course_name, lesson_number) when the store answers ans; with
\* "link_raise" the store returns passages and get_lesson_link raises
CourseSearchExecute(ans, args) ==
  IF ans.kind \in {"raise", "link_raise"} THEN Outcome(TRUE, <<>>, FALSE, <<>>)
  ELSE IF ans.kind = "error" THEN Outcome(FALSE, <<"store_error">>, FALSE, <<>>)
  ELSE IF ans.kind = "empty"
       THEN Outcome(FALSE, NoContentMessage(args.course_name, args.lesson_number), FALSE, <<>>)
  ELSE Outcome(FALSE, <<"results">>, TRUE, FormatSources(ans.metadata))

\* ---------------------------------------------------- CourseOutlineTool ----
CourseOutlineExecute(ans) ==
  IF ans = "raise" THEN Outcome(TRUE, <<>>, FALSE, <<>>)
  ELSE IF ans = "unresolved" THEN Outcome(FALSE, <<"no_course">>, FALSE, <<>>)
  ELSE IF ans = "catalog_raise" THEN Outcome(FALSE, <<"outline_error">>, FALSE, <<>>)
  ELSE IF ans = "no_metadata" THEN Outcome(FALSE, <<"metadata_not_found">>, FALSE, <<>>)
  ELSE Outcome(FALSE, <<"outline">>, FALSE, <<>>)

\* ---------------------------------------------------------- ToolManager ----
\* the record of a call made by the caller: what was called and whether it
\* raised; for execute_tool also the name, the arguments, the tool that ran,
\* the store's answer with its results.metadata, and the string returned
Op(o, r) == [op |-> o, raised |-> r, name |-> "", args |-> NoArgs, tool |-> None,
             answer |-> "", metadata |-> <<>>, returned |-> <<>>]

Registered(reg, nm) == \E i \in 1..Len(reg) : reg[i].name = nm

\* self.tools[tool_name]
ToolOf(reg, nm) == reg[CHOOSE i \in 1..Len(reg) : reg[i].name = nm].tool

\* self.tools.values()
Values(reg) == {reg[i].tool : i \in 1..Len(reg)}

\* self.tools[tool_name] = tool: a new key goes last, an existing key keeps its
\* place and gets the new value
DictSet(reg, nm, t) ==
  IF Registered(reg, nm)
  THEN [i \in 1..Len(reg) |-> IF reg[i].name = nm THEN [name |-> nm, tool |-> t] ELSE reg[i]]
  ELSE Append(reg, [name |-> nm, tool |-> t])

\* register_tool raises ValueError: "if not tool_name"
RegisterRaises(reg, t) == ToolDefName(t) = ""

RegisterResult(reg, t) ==
  IF RegisterRaises(reg, t) THEN reg ELSE DictSet(reg, ToolDefName(t), t)

\* f"Tool '{tool_name}' not found"
NotFoundMessage(nm) == <<"Tool '", nm, "' not found">>

\* variant: an unregistered name makes the lookup self.tools[tool_name] raise
ExecuteToolOutcomes_KeyError(reg, nm, args, SA, OA) ==
  IF ~Registered(reg, nm)
  THEN {[tool |-> None, answer |-> "", metadata |-> <<>>,
         out |-> Outcome(TRUE, <<>>, FALSE, <<>>)]}
  ELSE LET t == ToolOf(reg, nm) IN
       IF t \in SearchTools
       THEN {[tool |-> t, answer |-> a.kind, metadata |-> a.metadata,
              out |-> CourseSearchExecute(a, args)] : a \in SA}
       ELSE {[tool |-> t, answer |-> a, metadata |-> <<>>,
              out |-> CourseOutlineExecute(a)] : a \in OA}

\* the outcomes of tool_manager.execute_tool(name, **kwargs) when the store
\* answers a search with one of SA and an outline lookup with one of OA:
\* [tool, answer, metadata, outcome], tool = None when the name is not
\* registered, metadata = results.metadata of the store's answer
ExecuteToolOutcomes(reg, nm, args, SA, OA) ==
  IF ~Registered(reg, nm)
  THEN {[tool |-> None, answer |-> "", metadata |-> <<>>,
         out |-> Outcome(FALSE, NotFoundMessage(nm), FALSE, <<>>)]}
  ELSE LET t == ToolOf(reg, nm) IN
       IF t \in SearchTools
       THEN {[tool |-> t, answer |-> a.kind, metadata |-> a.metadata,
              out |-> CourseSearchExecute(a, args)] : a \in SA}
       ELSE {[tool |-> t, answer |-> a, metadata |-> <<>>,
              out |-> CourseOutlineExecute(a)] : a \in OA}

\* variant: an outline execution clears the sources of every search tool
SourcesAfter_OutlineClears(ls, e) ==
  IF e.out.writes THEN [ls EXCEPT ![e.tool] = e.out.sources]
  ELSE IF e.tool \in OutlineTools THEN [t \in SearchTools |-> <<>>]
  ELSE ls

\* tool.last_sources after the execution e
SourcesAfter(ls, e) ==
  IF e.out.writes THEN [ls EXCEPT ![e.tool] = e.out.sources] ELSE ls

RECURSIVE FirstSources(_, _)
FirstSources(reg, ls) ==
  IF reg = <<>> THEN <<>>
  ELSE IF Head(reg).tool \in SearchTools /\ ls[Head(reg).tool] # <<>>
       THEN ls[Head(reg).tool]
       ELSE FirstSources(Tail(reg), ls)

\* variant: the loop keeps going and the last non-empty list wins
GetLastSources_Last ==
  LET H == {i \in 1..Len(mgr_tools) : /\ mgr_tools[i].tool \in SearchTools
                                      /\ last_sources[mgr_tools[i].tool] # <<>>}
  IN IF H = {} THEN <<>>
     ELSE last_sources[mgr_tools[CHOOSE i \in H : \A j \in H : j <= i].tool]

\* get_last_sources()
GetLastSources == FirstSources(mgr_tools, last_sources)

\* the query that recorded what get_last_sources() returns (0: nothing returned)
RECURSIVE FirstOwner(_, _, _)
FirstOwner(reg, ls, own) ==
  IF reg = <<>> THEN 0
  ELSE IF Head(reg).tool \in SearchTools /\ ls[Head(reg).tool] # <<>>
       THEN own[Head(reg).tool]
       ELSE FirstOwner(Tail(reg), ls, own)

\* reset_sources(): every registered tool with a last_sources attribute
ResetResult(reg, ls) ==
  [t \in SearchTools |-> IF t \in Values(reg) THEN <<>> ELSE ls[t]]

\* --------------------------------------------------------- LLM boundary ----
Min(a, b) == IF a < b THEN a ELSE b

\* ids of the tool_use blocks of the response to call n: unique in a query
BlockId(n, j) == (n - 1) * MaxBlocks + j

\* content of a response with stop_reason "tool_use" to call n, when the LLM
\* has already emitted `used` tool_use blocks in this query: zero or more
\* tool_use blocks; a response of at most one tool_use block may start with a
\* text block
ToolUseContents(n, used) ==
  LET room == Min(MaxBlocks, MaxInvocations - used)
      Body(k) == {[j \in 1..k |-> ToolUseBlock(BlockId(n, j), f[j])] : f \in [1..k -> ToolNames]}
      Bodies == UNION {Body(k) : k \in 0..room}
  IN Bodies \cup {<<TextBlock(n)>> \o b : b \in Body(0) \cup Body(Min(1, room))}

\* the responses client.messages.create can give to call n
Responses(n, offered, used) ==
  {[stop_reason |-> "end_turn", content |-> <<TextBlock(n)>>]}
    \cup (IF offered
          THEN {[stop_reason |-> "tool_use", content |-> c] : c \in ToolUseContents(n, used)}
          ELSE {})

\* ---------------------------------------------------------- AIGenerator ----
\* variant: the history is left out of the system prompt
System_NoHistory(mr, h, synth) == [max_rounds |-> mr, history |-> FALSE, synthesis |-> synth]

\* system_content: the template formatted with max_rounds, followed by the
\* previous conversation when there is one; synth: the synthesis instruction
\* is appended
System(mr, h, synth) == [max_rounds |-> mr, history |-> h, synthesis |-> synth]

Params(msgs, sys, t, tc) == [messages |-> msgs, system |-> sys, tools |-> t, tool_choice |-> tc]

\* api_params of generate_response
FirstParams(mr, h, t) == Params(<<QueryMessage>>, System(mr, h, FALSE), t, t)

\* variant: after the first call the rounds are asked without the tools
RoundParams_NoTools(msgs, mr, h, t) == Params(msgs, System(mr, h, FALSE), FALSE, FALSE)

\* api_params of one round of _execute_sequential_rounds
RoundParams(msgs, mr, h, t) == Params(msgs, System(mr, h, FALSE), t, TRUE)

\* final_params of _execute_sequential_rounds
SynthesisParams(msgs, mr, h) == Params(msgs, System(mr, h, TRUE), FALSE, FALSE)

\* final_params of _handle_tool_execution
FinalParams(msgs, base) == Params(msgs, base.system, base.tools, base.tool_choice)

\* "if tools and max_rounds > 1"
UsesSequential(t, mr) == t /\ mr > 1

\* variant: tool handling is entered whenever a tool manager is supplied
NeedsTools_AnyStop(resp, m) == m

\* generate_response: "if response.stop_reason == "tool_use" and tool_manager"
NeedsTools(resp, m) == resp.stop_reason = "tool_use" /\ m

\* variant: the round loop never takes the early-termination branch
UsedTools_Always(resp) == TRUE

\* the round loop: "if response.stop_reason == "tool_use"", else early termination
UsedTools(resp) == resp.stop_reason = "tool_use"

\* variant: the dispatch loop swallows the exception of execute_tool
Propagates_Swallowed(out) == FALSE

\* an exception of execute_tool is not caught by any of the three dispatch loops
Propagates(out) == out.raised

\* response.content[0].text can be evaluated
HasText(resp) == Len(resp.content) > 0 /\ resp.content[1].type = "text"

\* variant: the initial response is charged two rounds
RemainingAfter_TwoUsed(p, mr, rem) ==
  IF p = "seq_init" THEN mr - 2
  ELSE IF p = "seq_loop" THEN rem - 1
  ELSE rem

\* variant: the initial response is not charged a round
RemainingAfter_NoneUsed(p, mr, rem) ==
  IF p = "seq_init" THEN mr
  ELSE IF p = "seq_loop" THEN rem - 1
  ELSE rem

\* remaining_rounds after the batch of the initial response / of a loop round
RemainingAfter(p, mr, rem) ==
  IF p = "seq_init" THEN mr - 1
  ELSE IF p = "seq_loop" THEN rem - 1
  ELSE rem

\* variant: the results message takes the place of the assistant message
WithResults_OverAssistant(msgs, rs) ==
  IF rs # <<>> THEN Append(SubSeq(msgs, 1, Len(msgs) - 1), ToolResultsMessage(rs)) ELSE msgs

\* variant: every result is appended as a message of its own
WithResults_OneEach(msgs, rs) == msgs \o [j \in 1..Len(rs) |-> ToolResultsMessage(<<rs[j]>>)]

\* "if tool_results: messages.append({"role": "user", "content": tool_results})"
WithResults(msgs, rs) == IF rs # <<>> THEN Append(msgs, ToolResultsMessage(rs)) ELSE msgs

\* return response.content[0].text
Return(resp) ==
  IF HasText(resp)
  THEN pc' = "done" /\ result' = resp.content[1].text /\ fault' = None
  ELSE /\ pc' = "raised" /\ result' = 0
       /\ fault' = IF resp.content = <<>> THEN "IndexError" ELSE "AttributeError"

\* the end of a tool batch on path p: the results message, then the next call
FinishBatch(p, msgs, rs, rem) ==
  /\ messages' = WithResults(msgs, rs)
  /\ tool_results' = rs
  /\ remaining_rounds' = RemainingAfter(p, max_rounds, rem)
  /\ path' = p
  /\ pc' = IF p = "single" THEN "final_call"
           ELSE IF RemainingAfter(p, max_rounds, rem) > 0 THEN "loop_call"
           ELSE "synth_call"

\* "tool_results = []" and the loop over response.content, up to its first
\* execute_tool call
BeginBatch(p, resp, msgs, rem) ==
  /\ response' = resp
  /\ IF ToolUseBlocks(resp.content) = <<>>
     THEN FinishBatch(p, msgs, <<>>, rem)
     ELSE /\ pc' = "exec"
          /\ path' = p
          /\ messages' = msgs
          /\ tool_results' = <<>>
          /\ remaining_rounds' = rem

\* a caller enters generate_response(query, history, tools, tool_manager, max_rounds)
Start(mr, h, t, m) ==
  /\ pc = "idle"
  /\ qn < MaxQueries
  /\ qn' = qn + 1
  /\ pc' = "first_call"
  /\ path' = "none"
  /\ max_rounds' = mr
  /\ conversation_history' = h
  /\ tools' = t
  /\ tool_manager' = m
  /\ messages' = <<QueryMessage>>
  /\ remaining_rounds' = 0
  /\ response' = NoResponse
  /\ tool_results' = <<>>
  /\ calls' = <<>>
  /\ replies' = <<>>
  /\ dispatched' = <<>>
  /\ result' = 0
  /\ fault' = None
  /\ last_op' = Op("generate_response", FALSE)
  /\ UNCHANGED <<mgr_tools, last_sources, src_query, regs, callers>>

\* generate_response: the first client.messages.create and the dispatch on it
FirstCall ==
  /\ pc = "first_call"
  /\ \E resp \in Responses(1, tools, 0) :
       /\ calls' = <<FirstParams(max_rounds, conversation_history, tools)>>
       /\ replies' = <<resp>>
       /\ IF NeedsTools(resp, tool_manager)
          THEN /\ BeginBatch(IF UsesSequential(tools, max_rounds) THEN "seq_init" ELSE "single",
                             resp, Append(messages, AssistantMessage(resp)), 0)
               /\ UNCHANGED <<result, fault>>
          ELSE /\ Return(resp)
               /\ response' = resp
               /\ UNCHANGED <<messages, path, remaining_rounds, tool_results>>
  /\ UNCHANGED <<regvars, qn, max_rounds, conversation_history, tools, tool_manager, dispatched>>

\* one tool_manager.execute_tool call of the running batch; after the last
\* one, the rest of the batch
ExecTool ==
  /\ pc = "exec"
  /\ LET blocks == ToolUseBlocks(response.content)
         b == blocks[Len(tool_results) + 1]
     IN \E e \in ExecuteToolOutcomes(mgr_tools, b.name, NoArgs, QueryAnswers, QueryOutlineAnswers) :
          /\ dispatched' = Append(dispatched, [id |-> b.id, name |-> b.name, tool |-> e.tool,
                                               call |-> Len(calls), raised |-> e.out.raised])
          /\ last_sources' = SourcesAfter(last_sources, e)
          /\ src_query' = IF e.out.writes THEN [src_query EXCEPT ![e.tool] = qn] ELSE src_query
          /\ IF Propagates(e.out)
             THEN /\ pc' = "raised"
                  /\ fault' = "ToolError"
                  /\ UNCHANGED <<messages, tool_results, remaining_rounds, path, result>>
             ELSE LET rs == Append(tool_results, ToolResultBlock(b, e.out.content)) IN
                  IF Len(rs) = Len(blocks)
                  THEN FinishBatch(path, messages, rs, remaining_rounds) /\ UNCHANGED <<result, fault>>
                  ELSE /\ tool_results' = rs
                       /\ UNCHANGED <<pc, path, messages, remaining_rounds, result, fault>>
  /\ UNCHANGED <<mgr_tools, last_op, regs, callers, qn, max_rounds, conversation_history, tools,
                 tool_manager, response,
                 calls, replies>>

\* one iteration of "for _ in range(remaining_rounds)": the call and the
\* dispatch on its response
LoopCall ==
  /\ pc = "loop_call"
  /\ LET p == RoundParams(messages, max_rounds, conversation_history, tools) IN
     \E resp \in Responses(Len(calls) + 1, p.tools, CountToolUse(messages)) :
       /\ calls' = Append(calls, p)
       /\ replies' = Append(replies, resp)
       /\ IF UsedTools(resp)
          THEN /\ BeginBatch("seq_loop", resp, Append(messages, AssistantMessage(resp)),
                             remaining_rounds)
               /\ UNCHANGED <<result, fault>>
          ELSE /\ Return(resp)
               /\ response' = resp
               /\ messages' = Append(messages, AssistantMessage(resp))
               /\ UNCHANGED <<path, remaining_rounds, tool_results>>
  /\ UNCHANGED <<regvars, qn, max_rounds, conversation_history, tools, tool_manager, dispatched>>

\* the synthesis call after the loop of _execute_sequential_rounds
SynthCall ==
  /\ pc = "synth_call"
  /\ LET p == SynthesisParams(messages, max_rounds, conversation_history) IN
     \E resp \in Responses(Len(calls) + 1, p.tools, CountToolUse(messages)) :
       /\ calls' = Append(calls, p)
       /\ replies' = Append(replies, resp)
       /\ Return(resp)
       /\ response' = resp
  /\ UNCHANGED <<regvars, qn, max_rounds, conversation_history, tools, tool_manager, dispatched,
                 messages, path, remaining_rounds, tool_results>>

\* the follow-up call of _handle_tool_execution
FinalCall ==
  /\ pc = "final_call"
  /\ LET p == FinalParams(messages, calls[1]) IN
     \E resp \in Responses(Len(calls) + 1, p.tools, CountToolUse(messages)) :
       /\ calls' = Append(calls, p)
       /\ replies' = Append(replies, resp)
       /\ Return(resp)
       /\ response' = resp
  /\ UNCHANGED <<regvars, qn, max_rounds, conversation_history, tools, tool_manager, dispatched,
                 messages, path, remaining_rounds, tool_results>>

\* generate_response has returned or raised: control is back in the caller and
\* the locals of the call are gone
Leave ==
  /\ pc \in {"done", "raised"}
  /\ pc' = "idle"
  /\ path' = "none"
  /\ max_rounds' = 0
  /\ conversation_history' = FALSE
  /\ tools' = FALSE
  /\ tool_manager' = FALSE
  /\ messages' = <<>>
  /\ remaining_rounds' = 0
  /\ response' = NoResponse
  /\ tool_results' = <<>>
  /\ calls' = <<>>
  /\ replies' = <<>>
  /\ dispatched' = <<>>
  /\ result' = 0
  /\ fault' = None
  /\ UNCHANGED <<regvars, qn>>

\* ------------------------------------------- the caller of ToolManager ----
\* tool_manager.register_tool(t)
RegisterTool(t) ==
  /\ pc = "idle"
  /\ regs < MaxRegs
  /\ regs' = regs + 1
  /\ mgr_tools' = RegisterResult(mgr_tools, t)
  /\ last_op' = Op("register_tool", RegisterRaises(mgr_tools, t))
  /\ UNCHANGED <<last_sources, src_query, callers, qvars>>

\* tool_manager.reset_sources()
ResetSources ==
  /\ pc = "idle"
  /\ last_sources' = ResetResult(mgr_tools, last_sources)
  /\ src_query' = [t \in SearchTools |-> IF t \in Values(mgr_tools) THEN 0 ELSE src_query[t]]
  /\ last_op' = Op("reset_sources", FALSE)
  /\ UNCHANGED <<mgr_tools, regs, callers, qvars>>

\* tool_manager.execute_tool(nm, **args) called directly; course_name and
\* lesson_number are passed to a search tool only
ExecuteTool(nm, args) ==
  /\ pc = "idle"
  /\ \/ args = NoArgs
     \/ Registered(mgr_tools, nm) /\ ToolOf(mgr_tools, nm) \in SearchTools
  /\ \E e \in ExecuteToolOutcomes(mgr_tools, nm, args, DirectAnswers, OutlineAnswers) :
       /\ last_sources' = SourcesAfter(last_sources, e)
       /\ src_query' = src_query
       /\ last_op' = [op |-> "execute_tool", raised |-> e.out.raised, name |-> nm,
                      args |-> args, tool |-> e.tool, answer |-> e.answer,
                      metadata |-> e.metadata, returned |-> e.out.content]
  /\ UNCHANGED <<mgr_tools, regs, callers, qvars>>

\* ------------------------------- threads sharing one ToolManager ----
\* Every thread that answers a query works on the same ToolManager and the
\* same tool instances; nothing in ToolManager or CourseSearchTool takes a
\* lock, so the calls of two threads interleave at every call boundary.
Callers == {1, 2}

\* a thread: where it is, how many tools its query has executed, the sources
\* its own last successful search recorded, and what get_last_sources()
\* returned to it with the thread whose search had recorded that
Caller(p, n, o, r, f) == [pc |-> p, execs |-> n, own |-> o, read |-> r, from |-> f]

NoCallers == [t \in Callers |-> Caller("start", 0, <<>>, <<>>, 0)]

\* thread t calls tool_manager.reset_sources() before its query
CReset(t) ==
  /\ callers[t].pc = "start"
  /\ last_sources' = ResetResult(mgr_tools, last_sources)
  /\ src_query' = [s \in SearchTools |-> IF s \in Values(mgr_tools) THEN 0 ELSE src_query[s]]
  /\ last_op' = Op("reset_sources", FALSE)
  /\ callers' = [callers EXCEPT ![t].pc = "query"]
  /\ UNCHANGED <<mgr_tools, regs, qvars>>

\* the query of thread t executes one tool: a step of one of the dispatch
\* loops of generate_response
CExec(t, nm) ==
  /\ callers[t].pc = "query"
  /\ callers[t].execs < MaxSearches
  /\ \E e \in ExecuteToolOutcomes(mgr_tools, nm, NoArgs, QueryAnswers, QueryOutlineAnswers) :
       /\ last_sources' = SourcesAfter(last_sources, e)
       /\ src_query' = IF e.out.writes THEN [src_query EXCEPT ![e.tool] = t] ELSE src_query
       /\ callers' = [callers EXCEPT ![t] =
                        IF Propagates(e.out)
                        THEN [@ EXCEPT !.pc = "raised"]
                        ELSE [@ EXCEPT !.execs = @ + 1,
                                       !.own = IF e.out.writes THEN e.out.sources ELSE @]]
  /\ UNCHANGED <<mgr_tools, last_op, regs, qvars>>

\* the query of thread t has returned and t calls get_last_sources()
CRead(t) ==
  /\ callers[t].pc = "query"
  /\ callers' = [callers EXCEPT ![t] =
                   [@ EXCEPT !.pc = "done",
                             !.read = GetLastSources,
                             !.from = FirstOwner(mgr_tools, last_sources, src_query)]]
  /\ last_op' = Op("get_last_sources", FALSE)
  /\ UNCHANGED <<mgr_tools, last_sources, src_query, regs, qvars>>

\* ------------------------------------------------------ specifications ----
QueryInit ==
  /\ pc = "idle"
  /\ path = "none"
  /\ qn = 0
  /\ max_rounds = 0
  /\ conversation_history = FALSE
  /\ tools = FALSE
  /\ tool_manager = FALSE
  /\ messages = <<>>
  /\ remaining_rounds = 0
  /\ response = NoResponse
  /\ tool_results = <<>>
  /\ calls = <<>>
  /\ replies = <<>>
  /\ dispatched = <<>>
  /\ result = 0
  /\ fault = None

\* the conversation_history a caller passes with its q-th query: the earlier
\* exchanges of the session, none before the first query
Histories(q) == {q > 1}

\* the application's registry: one search tool and one outline tool, registered
\* in that order on an empty ToolManager
AppRegistry == RegisterResult(RegisterResult(<<>>, "search1"), "outline1")

Init ==
  /\ mgr_tools = AppRegistry
  /\ last_sources = [t \in SearchTools |-> <<>>]
  /\ src_query = [t \in SearchTools |-> 0]
  /\ last_op = Op("register_tool", FALSE)
  /\ regs = 2
  /\ callers = NoCallers
  /\ QueryInit

Next ==
  \/ \E mr \in 0..MaxRounds, h \in Histories(qn + 1), t \in BOOLEAN, m \in BOOLEAN :
       Start(mr, h, t, m)
  \/ FirstCall
  \/ ExecTool
  \/ LoopCall
  \/ SynthCall
  \/ FinalCall
  \/ Leave
  \/ ResetSources

Spec == Init /\ [][Next]_vars

\* one generate_response call followed to its end: whether a call ends does
\* not depend on the calls before it
OneQueryNext == Next /\ qn' <= 1

\* generate_response is straight-line synchronous code: once entered it keeps
\* running, and client.messages.create and execute_tool come back
FairSpec ==
  /\ Init /\ [][OneQueryNext]_vars
  /\ WF_vars(FirstCall \/ ExecTool \/ LoopCall \/ SynthCall \/ FinalCall)

\* a ToolManager used on its own: ToolManager.__init__, then any calls
RegInit ==
  /\ mgr_tools = <<>>
  /\ last_sources = [t \in SearchTools |-> <<>>]
  /\ src_query = [t \in SearchTools |-> 0]
  /\ last_op = Op("init", FALSE)
  /\ regs = 0
  /\ callers = NoCallers
  /\ QueryInit

RegNext ==
  \/ \E t \in ToolObjs : RegisterTool(t)
  \/ \E nm \in ToolNames, args \in ArgValues : ExecuteTool(nm, args)
  \/ ResetSources

SpecReg == RegInit /\ [][RegNext]_vars

\* two threads on the application's ToolManager, each one resetting the
\* sources, running its query and reading the sources
ConcNext ==
  \/ \E t \in Callers : CReset(t)
  \/ \E t \in Callers, nm \in ToolNames : CExec(t, nm)
  \/ \E t \in Callers : CRead(t)

SpecConc == Init /\ [][ConcNext]_vars

\* ============================================================ properties ====
Last(q) == q[Len(q)]

\* the response asks for at least one tool
RequestsTools(r) == r.stop_reason = "tool_use" /\ ToolUseBlocks(r.content) # <<>>

\* the LLM calls of this query whose response led to at least one execute_tool
Batches == {dispatched[i].call : i \in 1..Len(dispatched)}

\* generate_response has ended and no tool raised
Ended == pc \in {"done", "raised"} /\ fault # "ToolError"

\* C1: for every max_rounds >= 1 (1 included), with tools and a tool manager,
\* if the LLM requests tools in every round up to max_rounds, then the query
\* makes exactly max_rounds tool batches and max_rounds + 1 LLM calls, and the
\* last call carries neither tools nor tool_choice.
C1_ExhaustionCounts ==
  (/\ Ended
   /\ max_rounds >= 1 /\ tools /\ tool_manager
   /\ Len(replies) >= max_rounds
   /\ \A i \in 1..max_rounds : RequestsTools(replies[i]))
  => /\ Cardinality(Batches) = max_rounds
     /\ Len(calls) = max_rounds + 1
     /\ ~Last(calls).tools
     /\ ~Last(calls).tool_choice

\* C2: for every k with 1 <= k < max_rounds, if the LLM requests tools in
\* rounds 1..k and answers with stop reason end_turn in round k+1, the query is
\* over with exactly k tool batches and k+1 LLM calls, none of them the
\* synthesis call, and returns the text of response k+1.
C2_EarlyTerminationCounts ==
  \A k \in 1..MaxRounds :
    (/\ k < max_rounds
     /\ Len(replies) > k
     /\ \A i \in 1..k : RequestsTools(replies[i])
     /\ replies[k + 1].stop_reason = "end_turn")
    => /\ pc = "done"
       /\ Len(calls) = k + 1
       /\ Cardinality(Batches) = k
       /\ \A c \in 1..Len(calls) : ~calls[c].system.synthesis
       /\ result = replies[k + 1].content[1].text

C2_Witness ==
  /\ pc = "done" /\ max_rounds = MaxRounds /\ Len(calls) = MaxRounds
  /\ \A i \in 1..MaxRounds - 1 : RequestsTools(replies[i])
  /\ replies[MaxRounds].stop_reason = "end_turn"
  /\ Cardinality(Batches) = MaxRounds - 1

\* C3: for every max_rounds >= 1, with or without tools, if the first response
\* does not have stop reason tool_use, the query is over after exactly one LLM
\* call and no tool execution, and returns the text of that response.
C3_NoToolsOneCall ==
  (max_rounds >= 1 /\ Len(replies) >= 1 /\ replies[1].stop_reason # "tool_use")
  => /\ pc = "done"
     /\ Len(calls) = 1
     /\ dispatched = <<>>
     /\ result = replies[1].content[1].text

C3_Witness ==
  /\ pc = "done" /\ max_rounds = MaxRounds /\ tools /\ tool_manager
  /\ Len(replies) = 1 /\ replies[1].stop_reason = "end_turn"
  /\ result = 1

\* the scenario of C4: max_rounds = 2, round 1 is one tool invocation, round 2
\* holds plain text and one tool invocation
C4_Scenario ==
  /\ max_rounds = 2 /\ tools /\ tool_manager
  /\ Len(replies) >= 2
  /\ replies[1].stop_reason = "tool_use"
  /\ Len(replies[1].content) = 1 /\ replies[1].content[1].type = "tool_use"
  /\ replies[2].stop_reason = "tool_use"
  /\ Len(replies[2].content) = 2
  /\ replies[2].content[1].type = "text" /\ replies[2].content[2].type = "tool_use"

\* C4 as stated: in that scenario the query makes 2 tool dispatches and exactly
\* 2 LLM calls, no synthesis call, and returns the text of the round-2 response.
C4_TwoCallsNoSynthesis ==
  (C4_Scenario /\ pc = "done")
  => /\ Len(dispatched) = 2
     /\ Len(calls) = 2
     /\ \A c \in 1..Len(calls) : ~calls[c].system.synthesis
     /\ result = replies[2].content[1].text

\* C4 as amended: in that scenario the query makes 2 tool dispatches and exactly
\* 3 LLM calls, the third being the synthesis call without tools, and returns
\* the text of the synthesis response, not the text of round 2.
C4_ThreeCallsWithSynthesis ==
  (C4_Scenario /\ pc = "done")
  => /\ Len(dispatched) = 2
     /\ Len(calls) = 3
     /\ calls[3].system.synthesis /\ ~calls[3].tools /\ ~calls[3].tool_choice
     /\ ~calls[1].system.synthesis /\ ~calls[2].system.synthesis
     /\ result = replies[3].content[1].text
     /\ result # replies[2].content[1].text

C4_Witness == C4_Scenario /\ pc = "done" /\ Len(dispatched) = 2

\* C5: in any round, a response whose stop reason is not tool_use ends the
\* query with that response's text, and once the query has returned no LLM call
\* and no tool execution is added to it, whatever round budget is left.
C5_EarlyTerminationAbsorbing ==
  [][(qn' = qn) =>
       /\ (Len(replies') = Len(replies) + 1 /\ Last(replies').stop_reason # "tool_use")
            => (pc' = "done" /\ result' = Last(replies').content[1].text)
       /\ (pc = "done")
            => (pc' = "idle" /\ calls' = <<>> /\ dispatched' = <<>>)]_vars

C5_Witness ==
  /\ pc = "done" /\ max_rounds = MaxRounds /\ Len(calls) = 2
  /\ remaining_rounds = MaxRounds - 1
  /\ Last(replies).stop_reason = "end_turn" /\ Len(dispatched) >= 1

\* C6: when the round budget is used up while the LLM still answers with
\* tool_use, exactly one more LLM call is made, without tools and with the
\* synthesis instruction in the system prompt; no tool is executed for its
\* response and its text is returned.
C6_SynthesisAfterExhaustion ==
  (/\ Ended
   /\ max_rounds >= 1 /\ tools /\ tool_manager
   /\ Len(replies) >= max_rounds
   /\ \A i \in 1..max_rounds : replies[i].stop_reason = "tool_use")
  => /\ Len(calls) = max_rounds + 1
     /\ Last(calls).system.synthesis
     /\ ~Last(calls).tools
     /\ \A i \in 1..Len(dispatched) : dispatched[i].call <= max_rounds
     /\ pc = "done"
     /\ result = Last(replies).content[1].text

\* the ids of the blocks of a content list
Ids(content) == [j \in 1..Len(content) |-> content[j].id]

\* in msgs every assistant message with tool_use blocks is followed by a user
\* message made of tool_result blocks that carry the same ids in the same order
Paired(msgs) ==
  \A i \in 1..Len(msgs) :
    (msgs[i].role = "assistant" /\ ToolUseBlocks(msgs[i].content) # <<>>)
    => /\ i < Len(msgs)
       /\ msgs[i + 1].role = "user"
       /\ \A j \in 1..Len(msgs[i + 1].content) : msgs[i + 1].content[j].type = "tool_result"
       /\ Ids(msgs[i + 1].content) = Ids(ToolUseBlocks(msgs[i].content))

\* C7: in the messages of every LLM call, each tool_use block of an assistant
\* message has exactly one tool_result block in the next user message, with
\* tool_use_id equal to its id, and the results stand in the order of the
\* invocations, also for batches of several invocations.
C7_ResultsPairedInOrder == \A k \in 1..Len(calls) : Paired(calls[k].messages)

C7_Witness ==
  \E k \in 1..Len(calls) : \E i \in 1..Len(calls[k].messages) :
    /\ calls[k].messages[i].role = "assistant"
    /\ Len(ToolUseBlocks(calls[k].messages[i].content)) = 2
    /\ Len(calls[k].messages[i + 1].content) = 2

C9_NoLeakAcrossQueries ==
  (pc \in {"done", "raised"})
  => FirstOwner(mgr_tools, last_sources, src_query) \in {0, qn}

\* C10: register_tool raises when the tool's name is empty and when the name is
\* already registered, and in both cases leaves ToolManager.tools as it was.
C10_RegisterRejects ==
  [][\A t \in ToolObjs :
       (RegisterTool(t) /\ (ToolDefName(t) = "" \/ Registered(mgr_tools, ToolDefName(t))))
       => (last_op'.raised /\ mgr_tools' = mgr_tools)]_vars

\* C11: execute_tool with a name that is not registered never raises: it
\* returns the "tool not found" string, runs no tool and leaves the registry
\* and every tool's sources as they were; inside generate_response that string
\* becomes the content of the invocation's tool_result and the round goes on.
C11_UnknownToolSentinel ==
  [][(/\ Len(dispatched') = Len(dispatched) + 1
      /\ ~Registered(mgr_tools, Last(dispatched').name))
     => /\ ~Last(dispatched').raised
        /\ Last(dispatched').tool = None
        /\ mgr_tools' = mgr_tools /\ last_sources' = last_sources
        /\ Last(tool_results') = [type |-> "tool_result", id |-> Last(dispatched').id,
                                  name |-> "", text |-> 0,
                                  content |-> NotFoundMessage(Last(dispatched').name)]
        /\ pc' \in {"exec", "loop_call", "synth_call", "final_call"}]_vars

C11_Witness ==
  /\ pc = "loop_call"
  /\ dispatched # <<>> /\ Last(dispatched).name = OtherName
  /\ Last(Last(messages).content).content = NotFoundMessage(OtherName)

\* the places in ToolManager.tools of the tools whose last_sources is not empty
Holders ==
  {i \in 1..Len(mgr_tools) : /\ mgr_tools[i].tool \in SearchTools
                             /\ last_sources[mgr_tools[i].tool] # <<>>}

AllOutline ==
  /\ dispatched # <<>>
  /\ \A i \in 1..Len(dispatched) : dispatched[i].tool \in OutlineTools

\* C13: executing the outline tool, resolved or not, never writes or alters the
\* sources of any tool: a query whose executions are all outline executions
\* leaves get_last_sources() as it found it, so empty after reset_sources().
C13_OutlineLeavesSources ==
  /\ [](AllOutline => FirstOwner(mgr_tools, last_sources, src_query) # qn)
  /\ [][(/\ Len(dispatched') = Len(dispatched) + 1
         /\ Last(dispatched').tool \in OutlineTools)
        => /\ last_sources' = last_sources
           /\ FirstSources(mgr_tools', last_sources') = GetLastSources]_vars

C13_Witness ==
  /\ pc = "done" /\ qn = 2 /\ AllOutline /\ Len(dispatched) >= 2
  /\ last_sources["search1"] # <<>>
  /\ \E i \in 1..Len(messages) : \E j \in 1..Len(messages) :
       /\ messages[i].role = "user" /\ messages[j].role = "user"
       /\ Last(messages[i].content).content = <<"no_course">>
       /\ Last(messages[j].content).content = <<"outline">>

\* the message r has the piece p followed by the value v
Mentions(r, p, v) == \E i \in 1..Len(r) - 1 : r[i] = p /\ r[i + 1] = v

\* C14: a search that finds no passage returns the "No relevant content found"
\* message naming every filter that was passed and no other: the course name
\* whenever course_name was passed, the lesson number whenever lesson_number
\* was passed, for every integer lesson number, 0 included.
C14_NoContentNamesFilters ==
  (/\ last_op.op = "execute_tool" /\ ~last_op.raised
   /\ last_op.tool \in SearchTools /\ last_op.answer = "empty")
  => /\ Head(last_op.returned) = "No relevant content found"
     /\ (last_op.args.course_name # None)
          <=> Mentions(last_op.returned, " in course '", last_op.args.course_name)
     /\ (last_op.args.lesson_number # NoLesson)
          <=> Mentions(last_op.returned, " in lesson ", Str(last_op.args.lesson_number))

\* C15: execute never raises, for the search tool and for the outline tool:
\* whatever fails in the store during the call (the search, the lesson-link
\* lookup, the course-name resolution, the metadata fetch) comes back as the
\* returned string.
C15_ExecuteNeverRaises ==
  (last_op.op = "execute_tool" /\ last_op.tool # None) => ~last_op.raised

\* C16: every LLM call of a query has the system prompt that states this
\* query's max_rounds and holds the conversation history when one was passed;
\* the history is no message: the messages of every call begin with the one
\* user message that holds the query, and no other message holds it.
C16_SystemCarriesHistory ==
  \A k \in 1..Len(calls) :
    /\ calls[k].system.max_rounds = max_rounds
    /\ calls[k].system.history = conversation_history
    /\ Head(calls[k].messages) = QueryMessage
    /\ \A i \in 2..Len(calls[k].messages) : \A j \in 1..Len(calls[k].messages[i].content) :
         calls[k].messages[i].content[j].type \in {"text", "tool_use", "tool_result"}

C16_Witness ==
  /\ conversation_history /\ max_rounds = 2
  /\ Len(calls) = 3 /\ Last(calls).system.synthesis
  /\ Len(Last(calls).messages) = 5

\* C17: with max_rounds = 1, tools and a tool manager, when the first response
\* asks for tools the query executes every tool_use block of that response
\* once and no other, makes exactly one further LLM call and returns the text
\* of that second response, whatever the second response contains.
C17_SingleRoundOneFollowUp ==
  (/\ Ended
   /\ max_rounds = 1 /\ tools /\ tool_manager
   /\ replies # <<>> /\ RequestsTools(replies[1]))
  => /\ Len(calls) = 2
     /\ Ids(dispatched) = Ids(ToolUseBlocks(replies[1].content))
     /\ pc = "done"
     /\ HasText(replies[2]) /\ result = replies[2].content[1].text

\* C18: for every max_rounds >= 1 and whatever the LLM answers, a query ends,
\* after at most max_rounds + 1 LLM calls and at most max_rounds tool batches,
\* and the number of rounds left never falls below zero.
C18_BoundedTermination ==
  /\ [](max_rounds >= 1
        => /\ Len(calls) <= max_rounds + 1
           /\ Cardinality(Batches) <= max_rounds
           /\ remaining_rounds >= 0)
  /\ (pc = "first_call" /\ max_rounds >= 1) ~> (pc \in {"done", "raised"})

C18_Witness ==
  /\ pc = "done" /\ max_rounds = 2
  /\ Len(calls) = 3 /\ Cardinality(Batches) = 2 /\ remaining_rounds = 0

\* C19: for every max_rounds >= 1, whenever generate_response returns, what it
\* returns is the text of an LLM response that is a plain-text answer (stop
\* reason end_turn), never part of a response that asks for tools: whatever
\* the LLM answers to the last call, and also when tools are passed without a
\* tool manager.
C19_ReturnsPlainAnswer ==
  (pc = "done" /\ max_rounds >= 1)
  => /\ Last(replies).stop_reason = "end_turn"
     /\ ToolUseBlocks(Last(replies).content) = <<>>
     /\ result = Last(replies).content[1].text

\* a is b cut short: b continues a by at least one element
IsProperPrefix(a, b) == Len(a) < Len(b) /\ SubSeq(b, 1, Len(a)) = a

\* C20: the rounds follow one another and the conversation only grows: the
\* messages of each LLM call begin with the messages of the call before it,
\* unchanged, followed by the assistant message of that call's response and the
\* results of all its tool invocations; between two calls no message is
\* changed or removed.
C20_ConversationAppendOnly ==
  /\ [](\A k \in 1..Len(calls) - 1 :
          LET prev == calls[k].messages
              cur == calls[k + 1].messages
              used == ToolUseBlocks(replies[k].content)
          IN /\ IsProperPrefix(prev, cur)
             /\ cur[Len(prev) + 1] = AssistantMessage(replies[k])
             /\ used = <<>> => Len(cur) = Len(prev) + 1
             /\ used # <<>> => /\ Len(cur) = Len(prev) + 2
                               /\ Last(cur).role = "user"
                               /\ Ids(Last(cur).content) = Ids(used))
  /\ [][(pc # "idle" /\ pc' # "idle")
        => (messages' = messages \/ IsProperPrefix(messages, messages'))]_vars

C20_Witness ==
  /\ Len(calls) = 3
  /\ Len(calls[1].messages) = 1 /\ Len(calls[2].messages) = 3 /\ Len(calls[3].messages) = 5
  /\ Len(Last(calls[2].messages).content) = 2

\* the response has stop reason tool_use and not one tool_use block
EmptyToolUse(r) == r.stop_reason = "tool_use" /\ ToolUseBlocks(r.content) = <<>>

\* C21: with tools and a tool manager and max_rounds >= 1, a response with
\* stop reason tool_use and no tool_use block neither raises nor ends the
\* query: its assistant message is appended, no tool is executed, no results
\* message is appended, and the next step is the next round's call when rounds
\* are left, the synthesis call when none is left.
C21_EmptyToolUseGoesOn ==
  [][(/\ Len(replies') = Len(replies) + 1
      /\ max_rounds >= 1 /\ tools /\ tool_manager
      /\ EmptyToolUse(Last(replies')))
     => /\ messages' = Append(messages, AssistantMessage(Last(replies')))
        /\ dispatched' = dispatched
        /\ remaining_rounds' = max_rounds - Len(replies')
        /\ pc' = IF remaining_rounds' > 0 THEN "loop_call" ELSE "synth_call"]_vars

\* C22: when tools are passed, every LLM call of the query other than the
\* synthesis call carries the tools with tool_choice auto, and every call
\* carries the whole list of messages gathered up to it.
C22_LoopCallsCarryTools ==
  /\ [](tools => \A k \in 1..Len(calls) :
                   ~calls[k].system.synthesis => (calls[k].tools /\ calls[k].tool_choice))
  /\ [][(Len(calls') = Len(calls) + 1 /\ tools)
        => Last(calls').messages = messages]_vars

C22_Witness ==
  /\ tools /\ Len(calls) = 3 /\ Last(calls).system.synthesis /\ ~Last(calls).tools
  /\ calls[2].tools /\ calls[2].tool_choice /\ Len(calls[2].messages) = 3

\* C23: every round whose response has at least one tool_use block gets, right
\* after its assistant message, exactly one user message, made of the
\* tool_result blocks of all the round's invocations and of nothing else: the
\* results of a round are never spread over several messages and never share a
\* message with another round's. Only a round that is still executing, or that
\* a raising tool cut short, has no results message yet.
C23_OneResultsMessagePerRound ==
  \A i \in 1..Len(messages) :
    (messages[i].role = "assistant" /\ ToolUseBlocks(messages[i].content) # <<>>)
    => IF i = Len(messages)
       THEN pc = "exec" \/ (pc = "raised" /\ fault = "ToolError")
       ELSE /\ messages[i + 1].role = "user"
            /\ Len(messages[i + 1].content) = Len(ToolUseBlocks(messages[i].content))
            /\ \A j \in 1..Len(messages[i + 1].content) :
                 /\ messages[i + 1].content[j].type = "tool_result"
                 /\ messages[i + 1].content[j].id = ToolUseBlocks(messages[i].content)[j].id
            /\ i + 2 <= Len(messages) => messages[i + 2].role = "assistant"

C23_Witness ==
  /\ pc = "done" /\ Len(messages) = 5
  /\ Len(ToolUseBlocks(messages[2].content)) = 2 /\ Len(messages[3].content) = 2
  /\ Len(ToolUseBlocks(messages[4].content)) = 1 /\ Len(messages[5].content) = 1

\* C24: a search that finds n >= 1 passages records exactly n sources, in the
\* order of the passages: the text of the i-th is "<course> - Lesson <n>" when
\* the i-th passage has a lesson number (0 included) and "<course>" when it has
\* none, and it has a link exactly when the passage has a lesson number and
\* the store returns a link for that lesson.
C24_SourcesFollowPassages ==
  (/\ last_op.op = "execute_tool" /\ ~last_op.raised
   /\ last_op.tool \in SearchTools /\ last_op.answer = "docs")
  => LET md == last_op.metadata
         src == last_sources[last_op.tool]
     IN /\ Len(md) >= 1 /\ Len(src) = Len(md)
        /\ \A i \in 1..Len(md) :
             LET c == md[i].course_title
                 n == md[i].lesson_number
             IN /\ src[i].text = IF n = NoLesson THEN <<c>> ELSE <<c, " - Lesson ", n>>
                /\ (src[i].link # <<>>) <=> (n # NoLesson /\ LessonLink(c, n) # <<>>)
                /\ src[i].link # <<>> => src[i].link = LessonLink(c, n)

C24_Witness ==
  /\ last_op.op = "execute_tool" /\ last_op.answer = "docs"
  /\ Len(last_op.metadata) = 2
  /\ Len(last_sources[last_op.tool]) = 2
  /\ last_sources[last_op.tool][1].link # <<>>
  /\ last_sources[last_op.tool][2].link = <<>>

\* C27: of the calls reset_sources() and search execute, only a search that
\* finds at least one passage writes the tool's last_sources, and it replaces
\* the list by the sources of its own passages; a search that returns the
\* no-content message or a store error, or raises, leaves every list as it
\* was, and reset_sources() empties the list of every registered search tool.
\* So last_sources is the list of the last successful search since the reset.
C27_LastSuccessfulSearchWins ==
  /\ [][(last_op'.op = "execute_tool" /\ last_op'.tool \in SearchTools)
        => /\ \A u \in SearchTools \ {last_op'.tool} : last_sources'[u] = last_sources[u]
           /\ IF last_op'.answer = "docs" /\ ~last_op'.raised
              THEN /\ Len(last_sources'[last_op'.tool]) = Len(last_op'.metadata)
                   /\ \A i \in 1..Len(last_op'.metadata) :
                        Head(last_sources'[last_op'.tool][i].text)
                          = last_op'.metadata[i].course_title
              ELSE last_sources'[last_op'.tool] = last_sources[last_op'.tool]]_vars
  /\ [][ResetSources
        => \A t \in SearchTools \cap Values(mgr_tools) : last_sources'[t] = <<>>]_vars

C27_Witness ==
  /\ last_op.op = "execute_tool" /\ last_op.answer \in {"empty", "error"}
  /\ last_op.tool \in SearchTools
  /\ Len(last_sources[last_op.tool]) = 1
  /\ Head(last_sources[last_op.tool][1].text) = "B"

\* the roles of msgs alternate: it starts with a user message, no two
\* neighbours have the same role, and it ends with a user message
Alternates(msgs) ==
  /\ msgs # <<>> /\ Head(msgs).role = "user" /\ Last(msgs).role = "user"
  /\ \A i \in 1..Len(msgs) - 1 : msgs[i].role # msgs[i + 1].role

\* C25 as stated: the messages of every LLM call alternate, whatever the LLM
\* answers, responses with stop reason tool_use and no tool_use block included.
C25_RolesAlternateAlways == \A k \in 1..Len(calls) : Alternates(calls[k].messages)

\* C25, amended: the messages of an LLM call alternate when every earlier
\* response of the query has at least one tool_use block; the only break of
\* the alternation is an assistant message without tool_use block, which is
\* followed by no user message: by the next assistant message, or by nothing
\* when the call is made.
C25_RolesAlternateWithTools ==
  \A k \in 1..Len(calls) :
    LET msgs == calls[k].messages IN
    /\ Head(msgs).role = "user"
    /\ (\A j \in 1..k - 1 : ToolUseBlocks(replies[j].content) # <<>>) => Alternates(msgs)
    /\ \A i \in 1..Len(msgs) :
         (i = Len(msgs) \/ msgs[i].role = msgs[i + 1].role)
         => \/ i = Len(msgs) /\ msgs[i].role = "user"
            \/ msgs[i].role = "assistant" /\ ToolUseBlocks(msgs[i].content) = <<>>

C25_Witness ==
  /\ Len(calls) = 3 /\ Len(calls[3].messages) = 5
  /\ Alternates(calls[3].messages)
  /\ Len(calls[3].messages[3].content) = 2

\* the number of tool batches a budget of mr rounds allows: none when mr <= 0
Allowed(mr) == IF mr > 0 THEN mr ELSE 0

\* C26: for every integer max_rounds, zero included, a query never dispatches
\* more tool batches than max_rounds allows; with max_rounds = 0 a first
\* response that requests tools leads to no execute_tool.
C26_BudgetForEveryInteger == Cardinality(Batches) <= Allowed(max_rounds)

\* C28: with two threads interleaved on the shared ToolManager, each one
\* calling reset_sources() before its query, what a thread reads from
\* get_last_sources() right after its query is what its own last successful
\* search recorded, and nothing recorded by the other thread's query.
C28_ReadsOwnSources ==
  \A t \in Callers :
    callers[t].pc = "done" => /\ callers[t].read = callers[t].own
                              /\ callers[t].from \in {0, t}

====
